---- MODULE Spec2Model ----
(***************************************************************************)
(* Model of Template/Assets/image_info.py: a script that opens one image,  *)
(* reads its mode and the optional "bits" entry of its info dictionary,    *)
(* prints a three-line report, and reports any exception as one line.      *)
(*                                                                         *)
(* One action per statement of the script.  The file system and the image  *)
(* decoder are the environment: the variable file fixes what the path      *)
(* resolves to and which library call, if any, raises.  The script is run  *)
(* NumRuns times in a row on that file, each run a fresh process.          *)
(***************************************************************************)
EXTENDS Integers, Sequences, FiniteSets, TLC

VARIABLES
    file,            \* what image_path resolves to (environment, see Files)
    pc,              \* position of the interpreter in the script
    held,            \* TRUE while the image handle is open (inside `with`)
    releases,        \* number of times the handle's __exit__ has run
    mode,            \* local variable mode
    bit_depth_info,  \* local variable bit_depth_info
    out,             \* lines written to standard output by this run
    exc,             \* exception in flight
    exit_status,     \* process exit status, -1 while the process runs
    run,             \* index of the current run
    prev_out         \* standard output of the previous run

vars == <<file, pc, held, releases, mode, bit_depth_info, out, exc,
          exit_status, run, prev_out>>

-----------------------------------------------------------------------------
(* Bounds *)

MaxBits == 5
NumRuns == 2

-----------------------------------------------------------------------------
(* Environment: the values the decoder can hand to the script *)

ImagePath == "title_background.png"

Modes == {"RGBA", "RGB", "L", "LA", "CMYK", "YCbCr", "I;16"}

Depths == {8, 16}

SeqsUpTo(n) == UNION {[1..k -> Depths] : k \in 0..n}

\* img.info.get("bits"): None when the key is absent, else the stored value.
NoBits == [shape |-> "none", n |-> 0, seq |-> <<>>]

BitsValues ==
    {NoBits}
    \cup {[shape |-> "int", n |-> v, seq |-> <<>>] : v \in Depths \cup {0}}
    \cup {[shape |-> s, n |-> 0, seq |-> q] :
             s \in {"tuple", "list"}, q \in SeqsUpTo(MaxBits)}

\* The library call of the script that raises for this file, if any.
Faults == {"none", "mode", "bits", "format", "release"}

OpenErrors == {"cannot identify image file", "Permission denied"}

FaultMsg == "broken data stream"

Files ==
    {[kind |-> "missing", msg |-> "", mode |-> "", bits |-> NoBits,
      fault |-> "none"]}
    \cup {[kind |-> "unreadable", msg |-> m, mode |-> "", bits |-> NoBits,
           fault |-> "none"] : m \in OpenErrors}
    \cup {[kind |-> "image", msg |-> "", mode |-> m, bits |-> b,
           fault |-> f] : m \in Modes, b \in BitsValues, f \in Faults}

NoExc == [type |-> "none", msg |-> ""]

-----------------------------------------------------------------------------
(* Pure parts of the script *)

\* str.join over map(str, ...): decimal digits of each element, no separator.
RECURSIVE Join(_)
Join(seq) ==
    IF seq = <<>> THEN "" ELSE ToString(Head(seq)) \o Join(Tail(seq))

RECURSIVE CommaSep(_)
CommaSep(seq) ==
    IF seq = <<>> THEN ""
    ELSE IF Len(seq) = 1 THEN ToString(seq[1])
    ELSE ToString(Head(seq)) \o ", " \o CommaSep(Tail(seq))

\* What an f-string writes for {bit_depth_info}.
Repr(b) ==
    CASE b.shape = "none" -> "None"
      [] b.shape = "int" -> ToString(b.n)
      [] b.shape = "tuple" ->
            IF Len(b.seq) = 1 THEN "(" \o ToString(b.seq[1]) \o ",)"
            ELSE "(" \o CommaSep(b.seq) \o ")"
      [] b.shape = "list" -> "[" \o CommaSep(b.seq) \o "]"

\* `if bit_depth_info:` -- None, 0 and empty sequences are false.
Truthy(b) ==
    CASE b.shape = "none" -> FALSE
      [] b.shape = "int" -> b.n # 0
      [] OTHER -> b.seq # <<>>

\* isinstance(bit_depth_info, tuple) and len(bit_depth_info) == len(mode)
IsPerChannel(b, m) == b.shape = "tuple" /\ Len(b.seq) = Len(m)

DigitsLabel(b) == "Image Bit Depth: RGBA" \o Join(b.seq)

FallbackLabel(b) ==
    "Image Bit Depth: " \o Repr(b) \o " bits per channel (or an unknown format)"

StandardLabelSwapped(m) ==
    IF m = "RGB" THEN "Image Bit Depth: RGBA8888 (Standard)"
    ELSE IF m = "RGBA" THEN "Image Bit Depth: RGB888 (Standard)"
    ELSE IF m = "L" THEN "Image Bit Depth: 8-bit Grayscale (L8)"
    ELSE "Image Bit Depth: Format details are not explicitly available."

StandardLabel(m) ==
    IF m = "RGBA" THEN "Image Bit Depth: RGBA8888 (Standard)"
    ELSE IF m = "RGB" THEN "Image Bit Depth: RGB888 (Standard)"
    ELSE IF m = "L" THEN "Image Bit Depth: 8-bit Grayscale (L8)"
    ELSE "Image Bit Depth: Format details are not explicitly available."

\* The line printed by the if/else of lines 16-32.
DepthLine(b, m) ==
    IF Truthy(b)
    THEN IF IsPerChannel(b, m) THEN DigitsLabel(b) ELSE FallbackLabel(b)
    ELSE StandardLabel(m)

NotFoundLine(path) == "Error: The file '" \o path \o "' was not found."

ErrorLine(e) == "An error occurred: " \o e.msg

\* The except clauses, tried in order.
HandlerGenericFirst(e) ==
    IF e.type \in {"FileNotFoundError", "Exception"} THEN "Exception"
    ELSE "uncaught"

HandlerNotFoundOnly(e) ==
    IF e.type = "FileNotFoundError" THEN "FileNotFoundError" ELSE "uncaught"

Handler(e) ==
    IF e.type = "FileNotFoundError" THEN "FileNotFoundError"
    ELSE IF e.type = "Exception" THEN "Exception"
    ELSE "uncaught"

\* Where control goes when a statement of the `with` body raises: the
\* context manager's __exit__ runs before the exception leaves the block.
BodyRaiseSkipsExit == "except"

BodyRaise == "release"

\* Image.open reads the file; it does not write to it.
OpenTruncates(f) ==
    [kind |-> "unreadable", msg |-> "cannot identify image file", mode |-> "",
     bits |-> NoBits, fault |-> "none"]

OpenEffect(f) == f

-----------------------------------------------------------------------------
(* The script, statement by statement *)

Init ==
    /\ file \in Files
    /\ pc = "open"
    /\ held = FALSE
    /\ releases = 0
    /\ mode = ""
    /\ bit_depth_info = NoBits
    /\ out = <<>>
    /\ exc = NoExc
    /\ exit_status = -1
    /\ run = 1
    /\ prev_out = <<>>

\* line 6: Image.open(image_path) and __enter__
Open ==
    /\ pc = "open"
    /\ file' = OpenEffect(file)
    /\ CASE file.kind = "missing" ->
              /\ exc' = [type |-> "FileNotFoundError",
                          msg |-> "[Errno 2] No such file or directory: '"
                                  \o ImagePath \o "'"]
              /\ pc' = "except"
              /\ held' = FALSE
         [] file.kind = "unreadable" ->
              /\ exc' = [type |-> "Exception", msg |-> file.msg]
              /\ pc' = "except"
              /\ held' = FALSE
         [] OTHER ->
              /\ exc' = exc
              /\ pc' = "read_mode"
              /\ held' = TRUE
    /\ UNCHANGED <<releases, mode, bit_depth_info, out, exit_status, run,
                   prev_out>>

\* line 7: mode = img.mode
ReadMode ==
    /\ pc = "read_mode"
    /\ IF file.fault = "mode"
       THEN /\ exc' = [type |-> "Exception", msg |-> FaultMsg]
            /\ pc' = BodyRaise
            /\ mode' = mode
       ELSE /\ mode' = file.mode
            /\ pc' = "read_bits"
            /\ exc' = exc
    /\ UNCHANGED <<file, held, releases, bit_depth_info, out, exit_status,
                   run, prev_out>>

\* line 10: bit_depth_info = img.info.get("bits")
ReadBits ==
    /\ pc = "read_bits"
    /\ IF file.fault = "bits"
       THEN /\ exc' = [type |-> "Exception", msg |-> FaultMsg]
            /\ pc' = BodyRaise
            /\ bit_depth_info' = bit_depth_info
       ELSE /\ bit_depth_info' = file.bits
            /\ pc' = "print_file"
            /\ exc' = exc
    /\ UNCHANGED <<file, held, releases, mode, out, exit_status, run,
                   prev_out>>

\* line 12
PrintFile ==
    /\ pc = "print_file"
    /\ out' = Append(out, "File: " \o ImagePath)
    /\ pc' = "print_mode"
    /\ UNCHANGED <<file, held, releases, mode, bit_depth_info, exc,
                   exit_status, run, prev_out>>

\* line 13
PrintMode ==
    /\ pc = "print_mode"
    /\ out' = Append(out, "Pillow Mode: " \o mode)
    /\ pc' = "print_depth"
    /\ UNCHANGED <<file, held, releases, mode, bit_depth_info, exc,
                   exit_status, run, prev_out>>

\* lines 16-32; converting the metadata value to text is the only call here
\* that can raise, and it is made only when the value is true.
PrintDepth ==
    /\ pc = "print_depth"
    /\ IF file.fault = "format" /\ Truthy(bit_depth_info)
       THEN /\ exc' = [type |-> "Exception", msg |-> FaultMsg]
            /\ pc' = BodyRaise
            /\ out' = out
       ELSE /\ out' = Append(out, DepthLine(bit_depth_info, mode))
            /\ pc' = "release"
            /\ exc' = exc
    /\ UNCHANGED <<file, held, releases, mode, bit_depth_info, exit_status,
                   run, prev_out>>

\* line 6, leaving the `with` block: __exit__ runs once, closes the handle
\* and does not swallow the exception in flight.  A close that fails has
\* given the descriptor up before it raises.
Release ==
    /\ pc = "release"
    /\ held' = FALSE
    /\ releases' = releases + 1
    /\ exc' = IF file.fault = "release"
              THEN [type |-> "Exception", msg |-> FaultMsg]
              ELSE exc
    /\ pc' = IF exc'.type = "none" THEN "exit" ELSE "except"
    /\ UNCHANGED <<file, mode, bit_depth_info, out, exit_status, run,
                   prev_out>>

\* lines 34-35
ExceptFileNotFound ==
    /\ pc = "except"
    /\ Handler(exc) = "FileNotFoundError"
    /\ out' = Append(out, NotFoundLine(ImagePath))
    /\ exc' = NoExc
    /\ pc' = "exit"
    /\ UNCHANGED <<file, held, releases, mode, bit_depth_info, exit_status,
                   run, prev_out>>

\* lines 36-37
ExceptException ==
    /\ pc = "except"
    /\ Handler(exc) = "Exception"
    /\ out' = Append(out, ErrorLine(exc))
    /\ exc' = NoExc
    /\ pc' = "exit"
    /\ UNCHANGED <<file, held, releases, mode, bit_depth_info, exit_status,
                   run, prev_out>>

\* End of the script: status 0, or 1 when an exception no clause caught
\* reaches the top level.
Exit ==
    /\ \/ pc = "exit"
       \/ pc = "except" /\ Handler(exc) = "uncaught"
    /\ exit_status' = IF exc.type = "none" THEN 0 ELSE 1
    /\ pc' = "done"
    /\ UNCHANGED <<file, held, releases, mode, bit_depth_info, out, exc, run,
                   prev_out>>

\* The script is started again on the same path: a new process, new locals.
RunAgain ==
    /\ pc = "done"
    /\ run < NumRuns
    /\ run' = run + 1
    /\ prev_out' = out
    /\ pc' = "open"
    /\ held' = FALSE
    /\ releases' = 0
    /\ mode' = ""
    /\ bit_depth_info' = NoBits
    /\ out' = <<>>
    /\ exc' = NoExc
    /\ exit_status' = -1
    /\ UNCHANGED file

Next ==
    \/ Open
    \/ ReadMode
    \/ ReadBits
    \/ PrintFile
    \/ PrintMode
    \/ PrintDepth
    \/ Release
    \/ ExceptFileNotFound
    \/ ExceptException
    \/ Exit
    \/ RunAgain

Spec == Init /\ [][Next]_vars

\* The interpreter never stops between statements.
FairSpec == Spec /\ WF_vars(Next)

TypeOK ==
    /\ file \in Files
    /\ pc \in {"open", "read_mode", "read_bits", "print_file", "print_mode",
               "print_depth", "release", "except", "exit", "done"}
    /\ held \in BOOLEAN
    /\ releases \in 0..1
    /\ exit_status \in {-1, 0, 1}
    /\ run \in 1..NumRuns
    /\ Len(out) <= 4

-----------------------------------------------------------------------------
(* Vocabulary of the properties *)

Done == pc = "done"

\* Channels of a mode, as the image library defines them.
Channels(m) ==
    CASE m = "RGBA" -> 4
      [] m = "RGB" -> 3
      [] m = "L" -> 1
      [] m = "LA" -> 2
      [] m = "CMYK" -> 4
      [] m = "YCbCr" -> 3
      [] m = "I;16" -> 1

\* The run opened the image and read its mode and its metadata.
Queried == file.kind = "image" /\ file.fault \notin {"mode", "bits"}

\* The run got as far as printing the bit-depth line.
Reported ==
    /\ Queried
    /\ ~(file.fault = "format" /\ Truthy(file.bits))

IsSequence(b) == b.shape \in {"tuple", "list"}

ErrorLines ==
    {NotFoundLine(ImagePath)}
    \cup {"An error occurred: " \o m : m \in OpenErrors \cup {FaultMsg}}

DepthLines ==
    {DepthLine(b, m) : b \in BitsValues, m \in Modes}
    \cup {"Image Bit Depth: " \o m \o Join(b.seq) :
             b \in {x \in BitsValues : IsSequence(x)}, m \in Modes}

-----------------------------------------------------------------------------
(* Properties *)

\* C1: the complete output of a run is either exactly the three report
\* lines (file, mode, bit depth, in that order) or exactly one error line,
\* whichever step fails; report lines never appear together with an error
\* line, and never fewer than three of them.
C1_ReportOrOneErrorLine ==
    Done =>
        \/ /\ Len(out) = 3
           /\ out[1] = "File: " \o ImagePath
           /\ out[2] = "Pillow Mode: " \o file.mode
           /\ out[3] \in DepthLines
        \/ /\ Len(out) = 1
           /\ out[1] \in ErrorLines

\* C2: when "bits" is a per-channel tuple whose length is the mode's channel
\* count, the third line is "Image Bit Depth: ", the mode name, and the
\* per-channel bit counts concatenated in order.
C2_DigitsLabelledWithMode ==
    (Done /\ Reported /\ file.bits.shape = "tuple"
          /\ Len(file.bits.seq) = Channels(file.mode))
    => /\ Len(out) >= 3
       /\ out[3] = "Image Bit Depth: " \o file.mode \o Join(file.bits.seq)

\* C3: whenever a "bits" entry is present and is not a per-channel sequence
\* of the mode's channel count (wrong length, empty, a bare integer, 0), the
\* third line is the fallback line stating the raw value; the static
\* mode-to-depth lookup is used only when no "bits" entry is present.
C3_FallbackWheneverBitsPresent ==
    (Done /\ Reported)
    => /\ (/\ file.bits.shape # "none"
           /\ ~(IsSequence(file.bits)
                /\ Len(file.bits.seq) = Channels(file.mode)))
          => out[3] = FallbackLabel(file.bits)
       /\ out[3] = StandardLabel(file.mode) => file.bits.shape = "none"

\* C4: the per-channel digit label is emitted only when the length of the
\* "bits" sequence equals the channel count of the mode, also for modes
\* whose name is not as long as their channel count (YCbCr, I;16).
C4_DigitsOnlyForChannelCount ==
    (Done /\ Reported /\ IsSequence(file.bits)
          /\ out[3] = DigitsLabel(file.bits))
    => Len(file.bits.seq) = Channels(file.mode)

\* C5: for an image that opens and has no "bits" metadata the third line is
\* fixed by the mode alone: RGBA8888 (Standard) for RGBA, RGB888 (Standard)
\* for RGB, 8-bit Grayscale (L8) for L, and the "not explicitly available"
\* line for every other mode.
C5_StandardLookup ==
    (Done /\ Queried /\ file.bits.shape = "none")
    => /\ Len(out) >= 3
       /\ out[3] =
            CASE file.mode = "RGBA" -> "Image Bit Depth: RGBA8888 (Standard)"
              [] file.mode = "RGB" -> "Image Bit Depth: RGB888 (Standard)"
              [] file.mode = "L" -> "Image Bit Depth: 8-bit Grayscale (L8)"
              [] OTHER ->
                 "Image Bit Depth: Format details are not explicitly available."

C5_Witness ==
    /\ Done
    /\ file.kind = "image"
    /\ file.bits.shape = "none"
    /\ file.mode = "RGB"
    /\ Len(out) = 3
    /\ out[3] = "Image Bit Depth: RGB888 (Standard)"

\* C6: when the path names no existing file, the whole output is the single
\* not-found line naming the path, and the process ends with status 0.
C6_NotFoundOneLine ==
    (Done /\ file.kind = "missing")
    => /\ out = <<"Error: The file 'title_background.png' was not found.">>
       /\ exit_status = 0

C6_Witness ==
    /\ Done
    /\ file.kind = "missing"
    /\ Len(out) = 1
    /\ releases = 0

\* C7: a failure other than not-found raised while opening or querying the
\* image gives exactly one line, "An error occurred: " and the message; and
\* every run, whatever fails, reaches its end with exit status 0.
C7_Safe ==
    /\ Done => exit_status = 0
    /\ (Done /\ file.kind = "unreadable")
       => out = <<"An error occurred: " \o file.msg>>
    /\ (Done /\ file.kind = "image" /\ file.fault \in {"mode", "bits"})
       => out = <<"An error occurred: " \o FaultMsg>>

C7_GenericErrorOneLine == []C7_Safe /\ ((pc = "open") ~> Done)

C7_Witness ==
    /\ Done
    /\ file.kind = "image"
    /\ file.fault = "bits"
    /\ out = <<"An error occurred: broken data stream">>
    /\ exit_status = 0

\* C8: in every final state of a run that opened the image, with the report
\* or with an error raised after the open, the handle has been released
\* exactly once; no run ends with the handle held.
C8_ReleasedExactlyOnce ==
    Done => /\ ~held
            /\ file.kind = "image" => releases = 1
            /\ file.kind # "image" => releases = 0

C8_Witness ==
    /\ Done
    /\ file.kind = "image"
    /\ file.fault = "bits"
    /\ releases = 1
    /\ ~held

\* C9: the handle is released before any line of the result is written: no
\* line is added to the output while the handle is held.
C9_NoOutputWhileHeld == [][Len(out') > Len(out) => ~held]_vars

====
